---------------------------- MODULE Spec2Model ----------------------------
(***************************************************************************)
(* Model of image-service/image_processor.py (refine_edges,                *)
(* get_content_bbox, crop_to_content, add_shadow, process_image) and of    *)
(* the session cache of image-service/bg_removal.py.                       *)
(*                                                                         *)
(* An image is a record [w, h, px]: px maps <<x, y>> (0-based, x the       *)
(* column, y the row) to an RGBA pixel <<r, g, b, a>> of 8-bit channels.   *)
(* A plane (PIL mode "L", one numpy channel) is a function from <<x, y>>   *)
(* to one 8-bit value.  The Pillow and numpy calls of the source are       *)
(* modelled by the integer arithmetic their implementations perform.       *)
(* float32 expressions of the source are computed exactly (as rationals)   *)
(* and truncated where the source casts to uint8.                          *)
(***************************************************************************)
EXTENDS Integers, Sequences, FiniteSets, TLC

(***************************************************************************)
(* Bounds of the model.                                                    *)
(***************************************************************************)
\* how many entries of AlphaLevels the foreground pixels are drawn from
NumLevels == 3
\* how many concurrent process_image calls the concurrency model runs
NumCalls == 2

(***************************************************************************)
(* Generic helpers.                                                        *)
(***************************************************************************)
Min2(a, b) == IF a <= b THEN a ELSE b
Max2(a, b) == IF a >= b THEN a ELSE b
Clamp(v, lo, hi) == IF v < lo THEN lo ELSE IF v > hi THEN hi ELSE v
\* CLIP8 of Pillow's ImagingUtils.h
CLIP8(v) == Clamp(v, 0, 255)

RECURSIVE SumSeq(_)
SumSeq(s) == IF s = << >> THEN 0 ELSE Head(s) + SumSeq(Tail(s))

RECURSIVE SetToSeq(_)
SetToSeq(S) == IF S = {} THEN << >>
               ELSE LET e == CHOOSE e \in S : TRUE IN <<e>> \o SetToSeq(S \ {e})

Coords(w, h) == (0 .. w - 1) \X (0 .. h - 1)

\* TLC keeps a function constructor unevaluated and evaluates its body at
\* every application; f @@ f is f, built once as an explicit function
Eager(f) == f @@ f

\* the alpha channel of an RGBA image as a plane: foreground.split()[3]
AlphaPlane(img) == Eager([xy \in Coords(img.w, img.h) |-> img.px[xy][4]])
\* Image.putalpha / arr[:, :, 3] = alpha
WithAlpha(img, plane) ==
  [img EXCEPT !.px = Eager([xy \in Coords(img.w, img.h) |->
                        <<img.px[xy][1], img.px[xy][2], img.px[xy][3], plane[xy]>>])]
\* Image.convert("RGBA") (lines 23 and 160): a new image; an RGB pixel gets
\* alpha 255, an L pixel becomes grey with alpha 255, an LA pixel grey with its
\* alpha (Convert.c: rgb2rgba, l2rgb, la2rgb)
ConvertRGBA(img) ==
  [img EXCEPT !.px = Eager([xy \in Coords(img.w, img.h) |->
     LET q == img.px[xy]
     IN CASE Len(q) = 4 -> q
          [] Len(q) = 3 -> <<q[1], q[2], q[3], 255>>
          [] Len(q) = 2 -> <<q[1], q[1], q[1], q[2]>>
          [] Len(q) = 1 -> <<q[1], q[1], q[1], 255>>])]
\* Image.new("RGBA", size, colour)
NewImage(w, h, colour) == [w |-> w, h |-> h, px |-> Eager([xy \in Coords(w, h) |-> colour])]

\* MULDIV255 / DIV255 of Pillow's ImagingUtils.h: rounded division by 255
DIV255(a) == LET tmp == a + 128 IN ((tmp \div 256) + tmp) \div 256
MULDIV255(a, b) == DIV255(a * b)


(***************************************************************************)
(* Pillow filters used by the source.                                      *)
(***************************************************************************)
\* mutant: the filter takes the largest value of the window (a dilation)
MinFilter3_Max(plane, w, h) ==
  Eager([xy \in Coords(w, h) |->
     LET nb == {plane[<<Clamp(xy[1] + dx, 0, w - 1), Clamp(xy[2] + dy, 0, h - 1)>>] :
                  dx \in -1 .. 1, dy \in -1 .. 1}
     IN CHOOSE m \in nb : \A v \in nb : m >= v])

\* mutant: outside the image the window reads 0 instead of the edge pixel
MinFilter3_ZeroPad(plane, w, h) ==
  Eager([xy \in Coords(w, h) |->
     LET nb == {IF <<xy[1] + dx, xy[2] + dy>> \in Coords(w, h)
                THEN plane[<<xy[1] + dx, xy[2] + dy>>] ELSE 0 :
                  dx \in -1 .. 1, dy \in -1 .. 1}
     IN CHOOSE m \in nb : \A v \in nb : m <= v])

\* ImageFilter.MinFilter(3): ImagingRankFilter on the image expanded by one
\* pixel on each side with its edge pixels replicated (ImagingExpand)
MinFilter3(plane, w, h) ==
  Eager([xy \in Coords(w, h) |->
     LET nb == {plane[<<Clamp(xy[1] + dx, 0, w - 1), Clamp(xy[2] + dy, 0, h - 1)>>] :
                  dx \in -1 .. 1, dy \in -1 .. 1}
     IN CHOOSE m \in nb : \A v \in nb : m <= v])

\* Box radius and 24-bit fixed-point weights that ImagingGaussianBlur
\* (3 passes) and ImagingHorizontalBoxBlur derive from a Gaussian radius,
\* given in tenths of a pixel (5 is radius 0.5, 50 is 5, 220 is 22):
\* [r |-> integer box radius, ww |-> weight of a pixel of the box,
\*  fw |-> weight of the two pixels just outside the box]
BoxOfRadius(radius10) ==
  CASE radius10 = 5   -> [r |-> 0,  ww |-> 15379114, fw |-> 699051]
    [] radius10 = 50  -> [r |-> 4,  ww |-> 1694668,  fw |-> 762602]
    [] radius10 = 220 -> [r |-> 21, ww |-> 381497,   fw |-> 186422]

\* how many offsets d in -r..r have Clamp(x + d, 0, n - 1) = i
WinCount(i, x, r, n) ==
  LET lo == IF i = 0 THEN -r ELSE i - x
      hi == IF i = n - 1 THEN r ELSE i - x
      a  == Max2(lo, -r)
      b  == Min2(hi, r)
  IN IF b >= a THEN b - a + 1 ELSE 0

RECURSIVE LineSum(_, _, _, _, _)
\* sum of line[Clamp(x + d)] over d in -r..r, from column i on
LineSum(line, i, x, r, n) ==
  IF i >= n THEN 0
  ELSE line[i] * WinCount(i, x, r, n) + LineSum(line, i + 1, x, r, n)

\* (acc * ww + far * fw + (1 << 23)) >> 24, computed in 12-bit limbs so that
\* no intermediate value leaves 32 bits
FixRound24(acc, far, ww, fw) ==
  LET A == (ww \div 4096) * acc + (fw \div 4096) * far
      B == (ww % 4096) * acc + (fw % 4096) * far + 8388608
  IN (A + (B \div 4096)) \div 4096

\* ImagingLineBoxBlur8 on one line of n pixels (a function on 0..n-1)
LineBoxBlur(line, n, box) ==
  Eager([x \in 0 .. n - 1 |->
     FixRound24(LineSum(line, 0, x, box.r, n),
                line[Clamp(x - box.r - 1, 0, n - 1)] + line[Clamp(x + box.r + 1, 0, n - 1)],
                box.ww, box.fw)])

\* ImagingHorizontalBoxBlur: every row blurred
HorizontalBoxBlur(plane, w, h, box) ==
  LET rows == Eager([y \in 0 .. h - 1 |->
                 LineBoxBlur(Eager([x \in 0 .. w - 1 |-> plane[<<x, y>>]]), w, box)])
  IN Eager([xy \in Coords(w, h) |-> rows[xy[2]][xy[1]]])

\* the same on the transposed image: every column blurred
VerticalBoxBlur(plane, w, h, box) ==
  LET cols == Eager([x \in 0 .. w - 1 |->
                 LineBoxBlur(Eager([y \in 0 .. h - 1 |-> plane[<<x, y>>]]), h, box)])
  IN Eager([xy \in Coords(w, h) |-> cols[xy[1]][xy[2]]])

\* ImageFilter.GaussianBlur(radius) on one channel: ImagingBoxBlur with n = 3,
\* three horizontal passes, then three passes on the transposed image
GaussianBlur(plane, w, h, radius10) ==
  LET box == BoxOfRadius(radius10)
      h1 == HorizontalBoxBlur(plane, w, h, box)
      h2 == HorizontalBoxBlur(h1, w, h, box)
      h3 == HorizontalBoxBlur(h2, w, h, box)
      v1 == VerticalBoxBlur(h3, w, h, box)
      v2 == VerticalBoxBlur(v1, w, h, box)
  IN VerticalBoxBlur(v2, w, h, box)

\* GaussianBlur on an RGBA image: ImagingLineBoxBlur32 blurs each of the four
\* channels on its own
GaussianBlurRGBA(img, radius10) ==
  LET ch(c) == GaussianBlur(Eager([xy \in Coords(img.w, img.h) |-> img.px[xy][c]]),
                            img.w, img.h, radius10)
      c1 == ch(1)
      c2 == ch(2)
      c3 == ch(3)
      c4 == ch(4)
  IN [img EXCEPT !.px = Eager([xy \in Coords(img.w, img.h) |->
                           <<c1[xy], c2[xy], c3[xy], c4[xy]>>])]

(***************************************************************************)
(* refine_edges                                                            *)
(***************************************************************************)
\* mutant: the edge mask reaches up to the threshold of step 2
IsEdge_UpTo245(a) == a > 5 /\ a < 245

\* edge_mask / solid_mask of step 1
IsEdge(a) == a > 5 /\ a < 240
IsSolid(a) == a > 240

\* astype(np.uint8) of a float whose integer part is v: values of 0..255 are
\* kept, a larger one wraps around
ToUint8(v) == v % 256

\* mutant: the weights of the solid mean and of the channel are exchanged
Decontaminate_Swapped(chan, a, ssum, n) ==
  (chan * a * 10 * n + (7 * ssum + 3 * chan * n) * (255 - a)) \div (2550 * n)

\* mutant: the solid mean is added on top of the channel
Decontaminate_Added(chan, a, ssum, n) ==
  (chan * a * 10 * n + (3 * ssum + 10 * chan * n) * (255 - a)) \div (2550 * n)

\* the coefficients of lines 43-45 for blend_factor = a/255, in units of
\* 1/WeightUnit: that of the pixel's own channel, bf + (1-bf)*0.7 (lines 43
\* and 45), and that of the solid mean, (1-bf)*0.3 (line 44)
WeightUnit == 2550
ChannelWeight(a) == 10 * a + 7 * (255 - a)
\* mutant: the solid mean is weighted by (1-bf)*0.4
SolidWeight_Heavy(a) == 4 * (255 - a)
SolidWeight(a) == 3 * (255 - a)

\* channel*bf + solid_mean*(1-bf)*0.3 + channel*(1-bf)*0.7 with bf = a/255 and
\* solid_mean = ssum/n: the integer part of the value, as astype(np.uint8)
\* will truncate it
Decontaminate(chan, a, ssum, n) ==
  (chan * ChannelWeight(a) * n + ssum * SolidWeight(a)) \div (WeightUnit * n)

\* Step 1 of refine_edges: the colour channels after decontamination
DecontaminatedPx(img) ==
  LET solid == {xy \in Coords(img.w, img.h) : IsSolid(img.px[xy][4])}
      edge  == {xy \in Coords(img.w, img.h) : IsEdge(img.px[xy][4])}
      n     == Cardinality(solid)
      sq    == SetToSeq(solid)
      ssum  == [c \in 1 .. 3 |-> SumSeq([i \in 1 .. Len(sq) |-> img.px[sq[i]][c]])]
  IN IF edge = {} \/ solid = {} THEN img.px
     ELSE Eager([xy \in Coords(img.w, img.h) |->
             LET p == img.px[xy]
             IN IF xy \in edge
                THEN <<ToUint8(Decontaminate(p[1], p[4], ssum[1], n)),
                       ToUint8(Decontaminate(p[2], p[4], ssum[2], n)),
                       ToUint8(Decontaminate(p[3], p[4], ssum[3], n)), p[4]>>
                ELSE p])

\* the values step 1 computes for the colour channels of the edge pixels,
\* before astype(np.uint8)
DecontaminationRaw(img) ==
  LET solid == {xy \in Coords(img.w, img.h) : IsSolid(img.px[xy][4])}
      edge  == {xy \in Coords(img.w, img.h) : IsEdge(img.px[xy][4])}
      n     == Cardinality(solid)
      sq    == SetToSeq(solid)
      ssum  == [c \in 1 .. 3 |-> SumSeq([i \in 1 .. Len(sq) |-> img.px[sq[i]][c]])]
  IN IF edge = {} \/ solid = {} THEN {}
     ELSE {Decontaminate(img.px[xy][c], img.px[xy][4], ssum[c], n) : xy \in edge, c \in 1 .. 3}

\* Step 2: alpha[alpha < 8] = 0; alpha[alpha > 245] = 255
AlphaThreshold(a) == IF a < 8 THEN 0 ELSE IF a > 245 THEN 255 ELSE a
\* re-threshold after feathering: alpha[alpha > 240] = 255; alpha[alpha < 8] = 0
ReThreshold(a) == IF a > 240 THEN 255 ELSE IF a < 8 THEN 0 ELSE a

\* erode_passes = {"light": 1, "medium": 2, "heavy": 3}.get(strength, 2)
ErodePasses(strength) ==
  CASE strength = "light" -> 1
    [] strength = "medium" -> 2
    [] strength = "heavy" -> 3
    [] OTHER -> 2

RECURSIVE Erode(_, _, _, _)
Erode(plane, w, h, passes) ==
  IF passes = 0 THEN plane ELSE Erode(MinFilter3(plane, w, h), w, h, passes - 1)

\* radius of the feathering blur, in tenths of a pixel: GaussianBlur(radius=0.5)
FeatherRadius10 == 5

\* steps 2-4 of refine_edges: the alpha plane after threshold, erosion and
\* feathering, before the re-threshold
FeatheredAlpha(foreground, strength) ==
  LET w == foreground.w
      h == foreground.h
      a2 == Eager([xy \in Coords(w, h) |-> AlphaThreshold(foreground.px[xy][4])])
      a3 == Erode(a2, w, h, ErodePasses(strength))
  IN GaussianBlur(a3, w, h, FeatherRadius10)

refine_edges(foreground, strength) ==
  LET w == foreground.w
      h == foreground.h
      rgb == DecontaminatedPx(foreground)
      a4 == FeatheredAlpha(foreground, strength)
      a5 == Eager([xy \in Coords(w, h) |-> ReThreshold(a4[xy])])
  IN [w |-> w, h |-> h,
      px |-> Eager([xy \in Coords(w, h) |-> <<rgb[xy][1], rgb[xy][2], rgb[xy][3], a5[xy]>>])]

\* every value refine_edges computes for an 8-bit channel, before it is
\* converted to 8 bits: decontaminated colours, thresholded, feathered and
\* re-thresholded alpha
RefineRaw(foreground, strength) ==
  LET a4 == FeatheredAlpha(foreground, strength)
  IN DecontaminationRaw(foreground)
     \cup {AlphaThreshold(foreground.px[xy][4]) : xy \in Coords(foreground.w, foreground.h)}
     \cup {a4[xy] : xy \in Coords(foreground.w, foreground.h)}
     \cup {ReThreshold(a4[xy]) : xy \in Coords(foreground.w, foreground.h)}

(***************************************************************************)
(* get_content_bbox, crop_to_content                                       *)
(***************************************************************************)
\* default of get_content_bbox's threshold parameter
BBoxThreshold == 10

\* rows / cols = np.any(alpha > threshold, axis): the indices that hold content
ContentRows(img, threshold) ==
  {y \in 0 .. img.h - 1 : \E x \in 0 .. img.w - 1 : img.px[<<x, y>>][4] > threshold}
ContentCols(img, threshold) ==
  {x \in 0 .. img.w - 1 : \E y \in 0 .. img.h - 1 : img.px[<<x, y>>][4] > threshold}
SetMin(S) == CHOOSE m \in S : \A v \in S : m <= v
SetMax(S) == CHOOSE m \in S : \A v \in S : m >= v

\* mutant: the upper corner is the last index, not one past it
get_content_bbox_Inclusive(foreground, threshold) ==
  LET rows == {y \in 0 .. foreground.h - 1 :
                 \E x \in 0 .. foreground.w - 1 : foreground.px[<<x, y>>][4] > threshold}
      cols == {x \in 0 .. foreground.w - 1 :
                 \E y \in 0 .. foreground.h - 1 : foreground.px[<<x, y>>][4] > threshold}
  IN IF rows = {} THEN <<0, 0, foreground.w, foreground.h>>
     ELSE <<SetMin(cols), SetMin(rows), SetMax(cols), SetMax(rows)>>

\* mutant: alpha is compared with >= instead of >
get_content_bbox_AtLeast(foreground, threshold) ==
  LET rows == {y \in 0 .. foreground.h - 1 :
                 \E x \in 0 .. foreground.w - 1 : foreground.px[<<x, y>>][4] >= threshold}
      cols == {x \in 0 .. foreground.w - 1 :
                 \E y \in 0 .. foreground.h - 1 : foreground.px[<<x, y>>][4] >= threshold}
  IN IF rows = {} THEN <<0, 0, foreground.w, foreground.h>>
     ELSE <<SetMin(cols), SetMin(rows), SetMax(cols) + 1, SetMax(rows) + 1>>

\* the box <<x0, y0, x1, y1>>, half-open
get_content_bbox(foreground, threshold) ==
  LET rows == ContentRows(foreground, threshold)
      cols == ContentCols(foreground, threshold)
  IN IF rows = {} THEN <<0, 0, foreground.w, foreground.h>>
     ELSE <<SetMin(cols), SetMin(rows), SetMax(cols) + 1, SetMax(rows) + 1>>

\* Image.crop(box) for a box inside the image
Crop(img, box) ==
  LET w == box[3] - box[1]
      h == box[4] - box[2]
  IN [w |-> w, h |-> h,
      px |-> Eager([xy \in Coords(w, h) |-> img.px[<<xy[1] + box[1], xy[2] + box[2]>>]])]

crop_to_content(foreground) == Crop(foreground, get_content_bbox(foreground, BBoxThreshold))

(***************************************************************************)
(* Image.thumbnail with Image.LANCZOS                                      *)
(***************************************************************************)
\* round_aspect of Image.thumbnail for the target width: max(min(floor, ceil,
\* key = |aspect - n / y|), 1) of y * aspect, aspect = w / h
RoundAspectX(w, h, y) ==
  LET f == (y * w) \div h
      c == IF (y * w) % h = 0 THEN f ELSE f + 1
      key(n) == IF w * y >= n * h THEN w * y - n * h ELSE n * h - w * y
  IN Max2(IF key(f) <= key(c) THEN f ELSE c, 1)

\* round_aspect for the target height: of x / aspect, with
\* key = 0 if n == 0 else |aspect - x / n|
RoundAspectY(w, h, x) ==
  LET f == (x * h) \div w
      c == IF (x * h) % w = 0 THEN f ELSE f + 1
      dist(n) == IF w * n >= x * h THEN w * n - x * h ELSE x * h - w * n
  IN Max2(IF f = 0 \/ dist(f) * c <= dist(c) * f THEN f ELSE c, 1)

\* preserve_aspect_ratio of Image.thumbnail for the image size <<w, h>> and the
\* requested size <<x, y>>: the final size, "keep" when the image already
\* fits, "ZeroDivisionError" when x / y divides by zero
ThumbnailSize(w, h, x, y) ==
  IF x >= w /\ y >= h THEN "keep"
  ELSE IF y = 0 THEN "ZeroDivisionError"
  ELSE IF x * h >= w * y THEN <<RoundAspectX(w, h, y), y>>
  ELSE <<x, RoundAspectY(w, h, x)>>

\* normalize_coeffs_8bpc(precompute_coeffs(inSize, outSize, lanczos)): for each
\* output position the 22-bit fixed-point weights of the input positions
\* 0 .. inSize-1 (for these sizes every window covers the whole line)
LanczosCoeffs(inSize, outSize) ==
  CASE inSize = 2 /\ outSize = 1 -> << <<2097152, 2097152>> >>
    [] inSize = 3 /\ outSize = 1 -> << <<1296896, 1600512, 1296896>> >>
    [] inSize = 3 /\ outSize = 2 -> << <<2742406, 1754765, -302866>>,
                                      <<-302866, 1754765, 2742406>> >>
    [] inSize = 4 /\ outSize = 1 -> << <<923235, 1173917, 1173917, 923235>> >>
    [] inSize = 4 /\ outSize = 2 -> << <<1946964, 1946964, 591023, -290647>>,
                                      <<-290647, 591023, 1946964, 1946964>> >>
    [] inSize = 4 /\ outSize = 3 -> << <<3177826, 1431249, -481605, 66835>>,
                                      <<-262144, 2359296, 2359296, -262144>>,
                                      <<66835, -481605, 1431249, 3177826>> >>

\* clip8((sum of line[i] * k[i] + (1 << 21)) >> 22) of ImagingResampleHorizontal_8bpc,
\* in 11-bit limbs so that no intermediate value leaves 32 bits
ResampleLine(line, n, outSize) ==
  LET kk == LanczosCoeffs(n, outSize)
  IN Eager([xx \in 0 .. outSize - 1 |->
        LET k == kk[xx + 1]
            A == SumSeq([i \in 1 .. n |-> line[i - 1] * (k[i] \div 2048)])
            B == SumSeq([i \in 1 .. n |-> line[i - 1] * (k[i] % 2048)]) + 2097152
        IN CLIP8((A + (B \div 2048)) \div 2048)])

\* ImagingResample on one channel: the horizontal pass when the width changes,
\* then the vertical pass when the height changes
ResamplePlane(plane, w, h, nw, nh) ==
  LET rows == Eager([y \in 0 .. h - 1 |->
                 ResampleLine(Eager([x \in 0 .. w - 1 |-> plane[<<x, y>>]]), w, nw)])
      hz == IF nw = w THEN plane ELSE Eager([xy \in Coords(nw, h) |-> rows[xy[2]][xy[1]]])
      cols == Eager([x \in 0 .. nw - 1 |->
                 ResampleLine(Eager([y \in 0 .. h - 1 |-> hz[<<x, y>>]]), h, nh)])
  IN IF nh = h THEN hz ELSE Eager([xy \in Coords(nw, nh) |-> cols[xy[1]][xy[2]]])

\* convert("RGBa"): rgbA2rgba premultiplies the colour channels
Premultiply(p) == <<MULDIV255(p[1], p[4]), MULDIV255(p[2], p[4]), MULDIV255(p[3], p[4]), p[4]>>
\* convert("RGBA") of an RGBa pixel: rgba2rgbA
Unpremultiply(p) ==
  IF p[4] = 255 \/ p[4] = 0 THEN p
  ELSE <<CLIP8((255 * p[1]) \div p[4]), CLIP8((255 * p[2]) \div p[4]),
         CLIP8((255 * p[3]) \div p[4]), p[4]>>

\* Image.resize(size, LANCZOS) of an RGBA image: premultiply, resample every
\* channel, unpremultiply
Resize(img, nw, nh) ==
  LET pre == Eager([xy \in Coords(img.w, img.h) |-> Premultiply(img.px[xy])])
      ch(c) == ResamplePlane(Eager([xy \in Coords(img.w, img.h) |-> pre[xy][c]]),
                             img.w, img.h, nw, nh)
      c1 == ch(1)
      c2 == ch(2)
      c3 == ch(3)
      c4 == ch(4)
  IN [w |-> nw, h |-> nh,
      px |-> Eager([xy \in Coords(nw, nh) |-> Unpremultiply(<<c1[xy], c2[xy], c3[xy], c4[xy]>>)])]

\* fg.thumbnail((x, y), Image.LANCZOS): [err, img]; Image.resize refuses a size
\* with a dimension below 1
Thumbnail(img, x, y) ==
  LET size == ThumbnailSize(img.w, img.h, x, y)
  IN IF size = "keep" THEN [err |-> "none", img |-> img]
     ELSE IF size = "ZeroDivisionError" THEN [err |-> "ZeroDivisionError", img |-> img]
     ELSE IF size[1] < 1 \/ size[2] < 1 THEN [err |-> "ValueError", img |-> img]
     ELSE IF size = <<img.w, img.h>> THEN [err |-> "none", img |-> img]
     ELSE [err |-> "none", img |-> Resize(img, size[1], size[2])]

(***************************************************************************)
(* Image.paste with a mask, Image.alpha_composite                          *)
(***************************************************************************)
\* BLEND8 of Pillow's Paste.c
BLEND8(mask, in1, in2) == DIV255(in1 * (255 - mask) + in2 * mask)

\* mutant: the box is ignored, the source is pasted at the origin
Paste_AtOrigin(dst, src, pos) ==
  [dst EXCEPT !.px =
     Eager([xy \in Coords(dst.w, dst.h) |->
        IF xy[1] < src.w /\ xy[2] < src.h
        THEN LET o == dst.px[xy]
                 i == src.px[xy]
             IN <<DIV255(o[1] * (255 - i[4]) + i[1] * i[4]),
                  DIV255(o[2] * (255 - i[4]) + i[2] * i[4]),
                  DIV255(o[3] * (255 - i[4]) + i[3] * i[4]),
                  DIV255(o[4] * (255 - i[4]) + i[4] * i[4])>>
        ELSE dst.px[xy]])]

\* dst.paste(src, pos, src): paste_mask_RGBA blends all four channels of the
\* source into the destination by the source's alpha, inside the part of the
\* source rectangle that lies on the destination (ImagingPaste clips the box)
Paste(dst, src, pos) ==
  [dst EXCEPT !.px =
     Eager([xy \in Coords(dst.w, dst.h) |->
        LET sx == xy[1] - pos[1]
            sy == xy[2] - pos[2]
        IN IF sx >= 0 /\ sx < src.w /\ sy >= 0 /\ sy < src.h
           THEN LET o == dst.px[xy]
                    i == src.px[<<sx, sy>>]
                IN <<BLEND8(i[4], o[1], i[1]), BLEND8(i[4], o[2], i[2]),
                     BLEND8(i[4], o[3], i[3]), BLEND8(i[4], o[4], i[4])>>
           ELSE dst.px[xy]])]

\* SHIFTFORDIV255 of AlphaComposite.c
SHIFTFORDIV255(a) == ((a \div 256) + a) \div 256

\* mutant: the result keeps the alpha of the top layer
AlphaOver_TopAlpha(dst, src) ==
  IF src[4] = 0 THEN <<dst[1], dst[2], dst[3], 0>>
  ELSE LET blend == dst[4] * (255 - src[4])
           outa255 == src[4] * 255 + blend
           coef1 == (src[4] * 255 * 255 * 128) \div outa255
           coef2 == 255 * 128 - coef1
           mix(s, d) == SHIFTFORDIV255(s * coef1 + d * coef2 + 128 * 128) \div 128
       IN <<mix(src[1], dst[1]), mix(src[2], dst[2]), mix(src[3], dst[3]), src[4]>>

\* one pixel of ImagingAlphaComposite: src over dst, 7 bits of extra precision
AlphaOver(dst, src) ==
  IF src[4] = 0 THEN dst
  ELSE LET blend == dst[4] * (255 - src[4])
           outa255 == src[4] * 255 + blend
           coef1 == (src[4] * 255 * 255 * 128) \div outa255
           coef2 == 255 * 128 - coef1
           mix(s, d) == SHIFTFORDIV255(s * coef1 + d * coef2 + 128 * 128) \div 128
       IN <<mix(src[1], dst[1]), mix(src[2], dst[2]), mix(src[3], dst[3]),
            SHIFTFORDIV255(outa255 + 128)>>

\* Image.alpha_composite raises ValueError ("images do not match") unless the
\* two images have one size
SameSize(im1, im2) == im1.w = im2.w /\ im1.h = im2.h

\* Image.alpha_composite(im1, im2) for two RGBA images of one size
AlphaComposite(im1, im2) ==
  [im1 EXCEPT !.px = Eager([xy \in Coords(im1.w, im1.h) |-> AlphaOver(im1.px[xy], im2.px[xy])])]

(***************************************************************************)
(* add_shadow                                                              *)
(***************************************************************************)
\* shadow_mask = np.where(alpha_arr > 20, 255, 0)
ShadowMask(a) == IF a > 20 THEN 255 ELSE 0

\* the silhouette image: transparent black with the mask as alpha
Silhouette(foreground) ==
  [w |-> foreground.w, h |-> foreground.h,
   px |-> Eager([xy \in Coords(foreground.w, foreground.h) |->
             <<0, 0, 0, ShadowMask(foreground.px[xy][4])>>])]

\* alpha.astype(np.float32) * opacity, opacity in percent: the integer part
ScaledAlpha(a, percent) == (a * percent) \div 100

\* (alpha.astype(np.float32) * opacity).astype(np.uint8), opacity in percent
ScaleAlpha(img, percent) ==
  [img EXCEPT !.px = Eager([xy \in Coords(img.w, img.h) |->
     <<img.px[xy][1], img.px[xy][2], img.px[xy][3],
       ToUint8(ScaledAlpha(img.px[xy][4], percent))>>])]

\* the silhouette pasted on a transparent canvas at pos and blurred
BlurredSilhouette(foreground, canvas_size, pos, radius10) ==
  LET blank == NewImage(canvas_size[1], canvas_size[2], <<0, 0, 0, 0>>)
      sil == Silhouette(foreground)
      pasted == Paste(blank, sil, pos)
  IN GaussianBlurRGBA(pasted, radius10)

\* mutant: the alpha of the silhouette is scaled before the blur
ShadowLayer_ScaleFirst(foreground, canvas_size, pos, radius10, percent) ==
  GaussianBlurRGBA(Paste(NewImage(canvas_size[1], canvas_size[2], <<0, 0, 0, 0>>),
                         ScaleAlpha(Silhouette(foreground), percent), pos),
                   radius10)

\* one sub-shadow: paste the silhouette, blur, then scale the alpha
ShadowLayer(foreground, canvas_size, pos, radius10, percent) ==
  ScaleAlpha(BlurredSilhouette(foreground, canvas_size, pos, radius10), percent)

\* offset of the contact shadow, its blur radius (in tenths) and its opacity
\* (in percent): lines 131, 132 and 136
ContactOffset == <<2, 4>>
ContactRadius10 == 50
ContactPercent == 40

\* mutant: the cast shadow is the first operand, the contact shadow the second
CompositeOperands_CastFirst(foreground, canvas_size, paste_pos, offset, radius10, percent) ==
  [im1 |-> ShadowLayer(foreground, canvas_size,
                       <<paste_pos[1] + offset[1], paste_pos[2] + offset[2]>>,
                       radius10, percent),
   im2 |-> ShadowLayer(foreground, canvas_size,
                       <<paste_pos[1] + ContactOffset[1], paste_pos[2] + ContactOffset[2]>>,
                       ContactRadius10, ContactPercent)]

\* mutant: the contact shadow takes the opacity of the call
CompositeOperands_ContactFollows(foreground, canvas_size, paste_pos, offset, radius10, percent) ==
  [im1 |-> ShadowLayer(foreground, canvas_size,
                       <<paste_pos[1] + ContactOffset[1], paste_pos[2] + ContactOffset[2]>>,
                       ContactRadius10, percent),
   im2 |-> ShadowLayer(foreground, canvas_size,
                       <<paste_pos[1] + offset[1], paste_pos[2] + offset[2]>>,
                       radius10, percent)]

\* the operands of the alpha_composite call of line 140: im1, the bottom
\* layer, is contact_canvas (lines 128-137); im2, composited over it, is
\* shadow_canvas (lines 113-125)
CompositeOperands(foreground, canvas_size, paste_pos, offset, radius10, percent) ==
  [im1 |-> ShadowLayer(foreground, canvas_size,
                       <<paste_pos[1] + ContactOffset[1], paste_pos[2] + ContactOffset[2]>>,
                       ContactRadius10, ContactPercent),
   im2 |-> ShadowLayer(foreground, canvas_size,
                       <<paste_pos[1] + offset[1], paste_pos[2] + offset[2]>>,
                       radius10, percent)]

\* add_shadow; blur_radius in tenths of a pixel, opacity in percent
add_shadow(foreground, canvas_size, paste_pos, offset, radius10, percent) ==
  LET o == CompositeOperands(foreground, canvas_size, paste_pos, offset, radius10, percent)
  IN AlphaComposite(o.im1, o.im2)

\* every alpha value add_shadow computes for its two layers, blurred and then
\* scaled, before it is converted to 8 bits
ShadowRaw(foreground, canvas_size, paste_pos, offset, radius10, percent) ==
  LET cast == BlurredSilhouette(foreground, canvas_size,
                                <<paste_pos[1] + offset[1], paste_pos[2] + offset[2]>>,
                                radius10)
      contact == BlurredSilhouette(foreground, canvas_size,
                                   <<paste_pos[1] + ContactOffset[1],
                                     paste_pos[2] + ContactOffset[2]>>,
                                   ContactRadius10)
  IN {cast.px[xy][4] : xy \in DOMAIN cast.px}
     \cup {ScaledAlpha(cast.px[xy][4], percent) : xy \in DOMAIN cast.px}
     \cup {contact.px[xy][4] : xy \in DOMAIN contact.px}
     \cup {ScaledAlpha(contact.px[xy][4], ContactPercent) : xy \in DOMAIN contact.px}

\* defaults of add_shadow's parameters, lines 97-99: offset, blur radius (in
\* tenths of a pixel), opacity (in percent)
DefaultOffset == <<6, 16>>
DefaultRadius10 == 220
DefaultPercent == 35

(***************************************************************************)
(* int(background_color[i:j], 16)                                          *)
(***************************************************************************)
\* a string is a sequence of one-character strings
HexDigit ==
  [ch \in {"0", "1", "2", "3", "4", "5", "6", "7", "8", "9",
           "a", "b", "c", "d", "e", "f", "A", "B", "C", "D", "E", "F"} |->
     CASE ch = "0" -> 0 [] ch = "1" -> 1 [] ch = "2" -> 2 [] ch = "3" -> 3
       [] ch = "4" -> 4 [] ch = "5" -> 5 [] ch = "6" -> 6 [] ch = "7" -> 7
       [] ch = "8" -> 8 [] ch = "9" -> 9
       [] ch \in {"a", "A"} -> 10 [] ch \in {"b", "B"} -> 11
       [] ch \in {"c", "C"} -> 12 [] ch \in {"d", "D"} -> 13
       [] ch \in {"e", "E"} -> 14 [] ch \in {"f", "F"} -> 15]

\* Python's s[i:j] for 0 <= i <= j: the slice stops at the end of the string
Slice(s, i, j) == SubSeq(s, i + 1, Min2(j, Len(s)))

RECURSIVE LStrip(_)
LStrip(s) == IF s # << >> /\ Head(s) = " " THEN LStrip(Tail(s)) ELSE s
RECURSIVE RStrip(_)
RStrip(s) == IF s # << >> /\ s[Len(s)] = " " THEN RStrip(SubSeq(s, 1, Len(s) - 1)) ELSE s

RECURSIVE HexValue(_)
HexValue(digits) ==
  IF digits = << >> THEN 0
  ELSE 16 * HexValue(SubSeq(digits, 1, Len(digits) - 1)) + HexDigit[digits[Len(digits)]]

\* int(s, 16) for a string of at most two characters: surrounding whitespace
\* is stripped, one sign and a 0x prefix are accepted, and what remains must
\* be hexadecimal digits (with so few characters an underscore can never sit
\* between two digits).  [ok |-> FALSE] stands for ValueError.
ParseInt16(s) ==
  LET t == RStrip(LStrip(s))
      signed == t # << >> /\ t[1] \in {"+", "-"}
      body == IF signed THEN Tail(t) ELSE t
      digits == IF Len(body) >= 2 /\ body[1] = "0" /\ body[2] \in {"x", "X"}
                THEN SubSeq(body, 3, Len(body)) ELSE body
  IN IF digits = << >> \/ \E i \in 1 .. Len(digits) : digits[i] \notin DOMAIN HexDigit
     THEN [ok |-> FALSE, v |-> 0]
     ELSE [ok |-> TRUE,
           v |-> IF signed /\ t[1] = "-" THEN 0 - HexValue(digits) ELSE HexValue(digits)]

\* mutant: the channels are read in the order blue, green, red
ParseColor_BGR(background_color) ==
  LET r == ParseInt16(Slice(background_color, 4, 6))
      g == ParseInt16(Slice(background_color, 2, 4))
      b == ParseInt16(Slice(background_color, 0, 2))
  IN [ok |-> r.ok /\ g.ok /\ b.ok, rgb |-> <<r.v, g.v, b.v>>]

\* lines 196-198: r, g, b = int(background_color[0:2], 16), ...
ParseColor(background_color) ==
  LET r == ParseInt16(Slice(background_color, 0, 2))
      g == ParseInt16(Slice(background_color, 2, 4))
      b == ParseInt16(Slice(background_color, 4, 6))
  IN [ok |-> r.ok /\ g.ok /\ b.ok, rgb |-> <<r.v, g.v, b.v>>]

\* the ink of Image.new("RGBA", size, (r, g, b, 255)): getink clips every
\* channel to 0..255
Ink(rgb) == <<CLIP8(rgb[1]), CLIP8(rgb[2]), CLIP8(rgb[3]), 255>>

(***************************************************************************)
(* Inputs of the model.                                                    *)
(***************************************************************************)
\* the pixels foregrounds are made of; an image uses the first NumLevels
PixelLevels ==
  << <<10, 20, 30, 0>>, <<200, 100, 50, 255>>, <<90, 160, 240, 100>>,
     <<255, 255, 255, 9>>, <<30, 60, 90, 243>> >>
Levels == {PixelLevels[i] : i \in 1 .. Min2(NumLevels, Len(PixelLevels))}

ImagesOfSize(w, h) == {[w |-> w, h |-> h, px |-> p] : p \in [Coords(w, h) -> Levels]}
UniformImage(w, h, pixel) == NewImage(w, h, pixel)

\* pixels of rasters that are not RGBA: modes RGB, L and LA
OtherModePixels == {<<200, 100, 50>>, <<77>>, <<77, 100>>}

\* foreground sizes of the pipeline model
FgSizes == {<<3, 1>>, <<1, 2>>, <<2, 2>>}
Foregrounds == UNION {ImagesOfSize(s[1], s[2]) : s \in FgSizes}

\* padding in eighths: 0, 0.125 and 0.375 (the products of line 171 are then
\* exact in floating point)
Paddings8 == {0, 1, 3}

White == <<"F", "F", "F", "F", "F", "F">>
Magenta == <<"F", "F", "0", "0", "F", "F">>
\* well-formed and malformed background_color strings
Colours ==
  { White, Magenta, <<"0", "a", "3", "B", "7", "c">>,
    <<"F", "F", "F">>,                               \* too short
    <<"F", "F", "F", "F", "F">>,                     \* five digits
    <<"F", "F", "0", "0", "F", "F", "0">>,           \* seven digits
    <<"G", "G", "0", "0", "0", "0">>,                \* not hexadecimal
    <<"+", "F", " ", "1", "-", "2">>,                \* signs and whitespace
    <<"0", "x", "F", "F", "F", "F">> }               \* a prefix

Args(f, col, p8, sh, size) ==
  [foreground |-> f, background_color |-> col, padding8 |-> p8, shadow |-> sh,
   output_size |-> size]

\* the calls of the pipeline model: every foreground with the default colour,
\* and every colour with the uniform foregrounds
MainInputs ==
  {Args(f, White, p8, sh, size) :
     f \in Foregrounds, p8 \in Paddings8, sh \in BOOLEAN, size \in {<<4, 8>>, <<3, 3>>}}
  \cup
  {Args(UniformImage(2, 2, px), col, p8, sh, size) :
     px \in Levels, col \in Colours, p8 \in {1, 3}, sh \in BOOLEAN,
     size \in {<<4, 8>>, <<3, 8>>}}
  \cup
  {Args(UniformImage(2, 2, px), White, 1, sh, <<4, 8>>) :
     px \in OtherModePixels, sh \in BOOLEAN}

\* the calls of the concurrency model
ParInputs ==
  {Args(f, Magenta, 0, TRUE, <<2, 5>>) :
     f \in {UniformImage(1, 1, PixelLevels[2]), UniformImage(2, 1, PixelLevels[3])}}

(***************************************************************************)
(* State.                                                                  *)
(***************************************************************************)
VARIABLES
  pc,       \* call -> the stage of process_image the call executes next
  args,     \* call -> the arguments of the call
  frames,   \* frame -> the local variables of process_image
  ret,      \* call -> what the call returned or raised
  trace,    \* call -> the stages the call has executed, in order
  ncalls,   \* how many calls have been made
  bb        \* a direct call of get_content_bbox / crop_to_content,
            \* refine_edges or add_shadow

vars == <<pc, args, frames, ret, trace, ncalls, bb>>

Calls == 1 .. NumCalls
\* how many calls the concurrency model makes in all
MaxInvocations == 3

NoImage == [w |-> 0, h |-> 0, px |-> << >>]
NoArgs == Args(NoImage, << >>, 0, FALSE, <<0, 0>>)
\* the local variables of process_image, and the image objects of the call:
\* heap[1] is the object the caller passed in, the others are the objects the
\* local fg has named, in the order of their creation; fg_obj is the one fg
\* names now (fg is its content); scaled_from is fg's size before line 175
NoFrame ==
  [fg |-> NoImage, paste_pos |-> <<0, 0>>, canvas |-> NoImage,
   shadow_layer |-> NoImage, rgb |-> <<0, 0, 0>>, result |-> NoImage,
   heap |-> << >>, fg_obj |-> 0, scaled_from |-> <<0, 0>>]
NoRet == [kind |-> "none", exc |-> "", stage |-> "", img |-> NoImage]
NoBB == [pc |-> "off", img |-> NoImage, threshold |-> 0, box |-> <<0, 0, 0, 0>>,
         cropped |-> NoImage]

\* mutant: the local variables are module-level, shared by all invocations
Frame_Shared(c) == 1

\* every invocation has its own local variables (lines 160-202 assign locals only)
Frame(c) == c

\* mutant: the shadow is composited after the foreground
StageAfter_ShadowLast(stage, shadow) ==
  CASE stage = "call" -> "refine"
    [] stage = "refine" -> "crop"
    [] stage = "crop" -> "layout"
    [] stage = "layout" -> "canvas"
    [] stage = "canvas" -> "paste"
    [] stage = "paste" -> IF shadow THEN "shadow" ELSE "parse"
    [] stage = "shadow" -> "parse"
    [] stage = "parse" -> "flatten"
    [] stage = "flatten" -> "drop_alpha"
    [] stage = "drop_alpha" -> "done"

\* the order of the statements of process_image: the stage after `stage`
StageAfter(stage, shadow) ==
  CASE stage = "call" -> "refine"
    [] stage = "refine" -> "crop"
    [] stage = "crop" -> "layout"
    [] stage = "layout" -> "canvas"
    [] stage = "canvas" -> IF shadow THEN "shadow" ELSE "paste"
    [] stage = "shadow" -> "paste"
    [] stage = "paste" -> "parse"
    [] stage = "parse" -> "flatten"
    [] stage = "flatten" -> "drop_alpha"
    [] stage = "drop_alpha" -> "done"

\* parameters of the add_shadow call of lines 186-189: offset, blur radius in
\* tenths of a pixel, opacity in percent
PipelineOffset == <<6, 14>>
PipelineRadius10 == 220
PipelinePercent == 35

\* mutant: every statement works in place on the object fg names
NewObject_InPlace(stmt) == FALSE

\* whether a statement leaves its result in a new image object: convert
\* (line 160), refine_edges (copy at line 23, fromarray at line 72) and crop
\* (line 90) return new images; thumbnail (line 175) changes fg in place
NewObject(stmt) == stmt \in {"convert", "refine", "crop"}

\* fg = <result of stmt>, on the local variables f
Bind(f, stmt, img) ==
  IF NewObject(stmt)
  THEN [f EXCEPT !.fg = img, !.heap = Append(@, img), !.fg_obj = Len(f.heap) + 1]
  ELSE [f EXCEPT !.fg = img, !.heap = [@ EXCEPT ![f.fg_obj] = img]]

Local(c) == frames[Frame(c)]
Advance(c, stage) ==
  /\ pc' = [pc EXCEPT ![c] = StageAfter(stage, args[c].shadow)]
  /\ trace' = [trace EXCEPT ![c] = Append(@, stage)]
Raise(c, stage, exc) ==
  /\ pc' = [pc EXCEPT ![c] = "error"]
  /\ trace' = [trace EXCEPT ![c] = Append(@, stage)]
  /\ ret' = [ret EXCEPT ![c] = [kind |-> "error", exc |-> exc, stage |-> stage,
                                 img |-> NoImage]]

(***************************************************************************)
(* process_image, one action per stage.                                    *)
(***************************************************************************)
\* lines 160-161: the call; fg = foreground.convert("RGBA") is a copy
Call(c, a) ==
  /\ pc[c] = "idle"
  /\ ncalls < MaxInvocations
  /\ ncalls' = ncalls + 1
  /\ args' = [args EXCEPT ![c] = a]
  /\ frames' = [frames EXCEPT ![Frame(c)] =
                  Bind([NoFrame EXCEPT !.heap = <<a.foreground>>, !.fg_obj = 1],
                       "convert", ConvertRGBA(a.foreground))]
  /\ pc' = [pc EXCEPT ![c] = StageAfter("call", a.shadow)]
  /\ trace' = [trace EXCEPT ![c] = << >>]
  /\ ret' = [ret EXCEPT ![c] = NoRet]
  /\ UNCHANGED bb

\* line 164
Refine(c) ==
  /\ pc[c] = "refine"
  /\ frames' = [frames EXCEPT ![Frame(c)] = Bind(@, "refine", refine_edges(@.fg, "light"))]
  /\ Advance(c, "refine")
  /\ UNCHANGED <<args, ret, ncalls, bb>>

\* line 167
CropToContent(c) ==
  /\ pc[c] = "crop"
  /\ frames' = [frames EXCEPT ![Frame(c)] = Bind(@, "crop", crop_to_content(@.fg))]
  /\ Advance(c, "crop")
  /\ UNCHANGED <<args, ret, ncalls, bb>>

\* mutant: the padding is not taken off the target size
InnerSize_NoPadding(target, padding8) == target

\* int(target * (1 - 2 * padding)) for padding = padding8 / 8
InnerSize(target, padding8) == (target * (8 - 2 * padding8)) \div 8

\* mutant: the free space is not halved, the foreground sits at the far edge
WithLayout_NoHalving(f, size, padding8) ==
  LET t == Thumbnail(f.fg, InnerSize(size[1], padding8), InnerSize(size[2], padding8))
  IN [err |-> t.err,
      frame |-> [Bind(f, "thumbnail", t.img) EXCEPT
                   !.scaled_from = <<f.fg.w, f.fg.h>>,
                   !.paste_pos = <<size[1] - t.img.w, size[2] - t.img.h>>]]

\* lines 171-179 on the local variables f: inner box, in-place thumbnail,
\* centred paste position; [err, frame]
WithLayout(f, size, padding8) ==
  LET t == Thumbnail(f.fg, InnerSize(size[1], padding8), InnerSize(size[2], padding8))
  IN [err |-> t.err,
      frame |-> [Bind(f, "thumbnail", t.img) EXCEPT
                   !.scaled_from = <<f.fg.w, f.fg.h>>,
                   !.paste_pos = <<(size[1] - t.img.w) \div 2,
                                   (size[2] - t.img.h) \div 2>>]]

\* lines 171-179
Layout(c) ==
  /\ pc[c] = "layout"
  /\ LET l == WithLayout(Local(c), args[c].output_size, args[c].padding8)
     IN IF l.err # "none"
        THEN /\ Raise(c, "layout", l.err)
             /\ UNCHANGED frames
        ELSE /\ frames' = [frames EXCEPT ![Frame(c)] = l.frame]
             /\ Advance(c, "layout")
             /\ UNCHANGED ret
  /\ UNCHANGED <<args, ncalls, bb>>

\* line 182
AllocCanvas(c) ==
  /\ pc[c] = "canvas"
  /\ frames' = [frames EXCEPT ![Frame(c)].canvas =
                  NewImage(args[c].output_size[1], args[c].output_size[2], <<0, 0, 0, 0>>)]
  /\ Advance(c, "canvas")
  /\ UNCHANGED <<args, ret, ncalls, bb>>

\* lines 186-190 on the local variables f: the shadow layer and its composite
WithShadow(f, output_size) ==
  LET layer == add_shadow(f.fg, output_size, f.paste_pos,
                          PipelineOffset, PipelineRadius10, PipelinePercent)
  IN [f EXCEPT !.shadow_layer = layer, !.canvas = AlphaComposite(f.canvas, layer)]

\* lines 185-190
Shadow(c) ==
  /\ pc[c] = "shadow"
  /\ IF Local(c).canvas.w = args[c].output_size[1] /\ Local(c).canvas.h = args[c].output_size[2]
     THEN /\ frames' = [frames EXCEPT ![Frame(c)] = WithShadow(@, args[c].output_size)]
          /\ Advance(c, "shadow")
          /\ UNCHANGED ret
     ELSE /\ Raise(c, "shadow", "ValueError")
          /\ UNCHANGED frames
  /\ UNCHANGED <<args, ncalls, bb>>

\* line 193
PasteForeground(c) ==
  /\ pc[c] = "paste"
  /\ frames' = [frames EXCEPT ![Frame(c)].canvas =
                  Paste(@, Local(c).fg, Local(c).paste_pos)]
  /\ Advance(c, "paste")
  /\ UNCHANGED <<args, ret, ncalls, bb>>

\* lines 196-198
ParseBackground(c) ==
  /\ pc[c] = "parse"
  /\ LET col == ParseColor(args[c].background_color)
     IN IF col.ok
        THEN /\ frames' = [frames EXCEPT ![Frame(c)].rgb = col.rgb]
             /\ Advance(c, "parse")
             /\ UNCHANGED ret
        ELSE /\ Raise(c, "parse", "ValueError")
             /\ UNCHANGED frames
  /\ UNCHANGED <<args, ncalls, bb>>

\* lines 199-201
Flatten(c) ==
  /\ pc[c] = "flatten"
  /\ LET bg == NewImage(args[c].output_size[1], args[c].output_size[2], Ink(Local(c).rgb))
     IN IF SameSize(bg, Local(c).canvas)
        THEN /\ frames' = [frames EXCEPT ![Frame(c)].result =
                             AlphaComposite(bg, Local(c).canvas)]
             /\ Advance(c, "flatten")
             /\ UNCHANGED ret
        ELSE /\ Raise(c, "flatten", "ValueError")
             /\ UNCHANGED frames
  /\ UNCHANGED <<args, ncalls, bb>>

\* convert("RGB"): the alpha channel is dropped
ConvertRGB(img) ==
  [img EXCEPT !.px = Eager([xy \in Coords(img.w, img.h) |->
                              <<img.px[xy][1], img.px[xy][2], img.px[xy][3]>>])]

\* line 202
DropAlpha(c) ==
  /\ pc[c] = "drop_alpha"
  /\ ret' = [ret EXCEPT ![c] = [kind |-> "image", exc |-> "", stage |-> "",
                                 img |-> ConvertRGB(Local(c).result)]]
  /\ Advance(c, "drop_alpha")
  /\ UNCHANGED <<args, frames, ncalls, bb>>

\* the caller takes the result; the slot can make another call
Finish(c) ==
  /\ pc[c] \in {"done", "error"}
  /\ pc' = [pc EXCEPT ![c] = "idle"]
  /\ UNCHANGED <<args, frames, ret, trace, ncalls, bb>>

Stage(c) ==
  \/ Refine(c)
  \/ CropToContent(c)
  \/ Layout(c)
  \/ AllocCanvas(c)
  \/ Shadow(c)
  \/ PasteForeground(c)
  \/ ParseBackground(c)
  \/ Flatten(c)
  \/ DropAlpha(c)

InitCalls ==
  /\ pc = [c \in Calls |-> "idle"]
  /\ args = [c \in Calls |-> NoArgs]
  /\ frames = [c \in Calls |-> NoFrame]
  /\ ret = [c \in Calls |-> NoRet]
  /\ trace = [c \in Calls |-> << >>]
  /\ ncalls = 0

\* one call of process_image, with any of MainInputs
Init ==
  /\ InitCalls
  /\ bb = NoBB

Next ==
  \/ ncalls = 0 /\ \E a \in MainInputs : Call(1, a)
  \/ Stage(1)

Spec == Init /\ [][Next]_vars

(***************************************************************************)
(* get_content_bbox and crop_to_content called on their own.               *)
(***************************************************************************)
BBoxSizes == {<<3, 2>>, <<1, 3>>}
BBoxThresholds == {-1, 0, BBoxThreshold, 100, 255}
BBoxInputs ==
  {[pc |-> "start", img |-> i, threshold |-> t, box |-> <<0, 0, 0, 0>>, cropped |-> NoImage] :
     i \in UNION {ImagesOfSize(sz[1], sz[2]) : sz \in BBoxSizes}, t \in BBoxThresholds}

\* get_content_bbox(img, threshold)
BBoxCall ==
  /\ bb.pc = "start"
  /\ bb' = [bb EXCEPT !.pc = "bbox", !.box = get_content_bbox(bb.img, bb.threshold)]
  /\ UNCHANGED <<pc, args, frames, ret, trace, ncalls>>

\* crop_to_content(img): the box of the default threshold, and the crop
CropCall ==
  /\ bb.pc = "start"
  /\ bb.threshold = BBoxThreshold
  /\ bb' = [bb EXCEPT !.pc = "cropped",
                      !.box = get_content_bbox(bb.img, BBoxThreshold),
                      !.cropped = crop_to_content(bb.img)]
  /\ UNCHANGED <<pc, args, frames, ret, trace, ncalls>>

InitBBox ==
  /\ InitCalls
  /\ bb \in BBoxInputs

NextBBox == BBoxCall \/ CropCall

SpecBBox == InitBBox /\ [][NextBBox]_vars

(***************************************************************************)
(* refine_edges and add_shadow called on their own.                        *)
(***************************************************************************)
AllPixels == {PixelLevels[i] : i \in 1 .. Len(PixelLevels)}
ImagesOver(w, h, pixels) == {[w |-> w, h |-> h, px |-> p] : p \in [Coords(w, h) -> pixels]}

\* the strength argument; a string that is none of the three counts as medium
Strengths == {"light", "medium", "heavy", "strong"}

\* two colours with the same alpha a
TwoColours(a) == {<<200, 100, 50, a>>, <<10, 20, 30, a>>}

RefineInputs ==
  {[pc |-> "start", fn |-> "refine_edges", img |-> i, strength |-> st, out |-> NoImage,
    out2 |-> NoImage, raw |-> {}] :
     i \in ImagesOver(5, 1, AllPixels \ {PixelLevels[4]}) \cup ImagesOver(2, 2, AllPixels)
            \cup {UniformImage(3, 3, px) : px \in AllPixels}
            \cup ImagesOver(3, 2, TwoColours(255)) \cup ImagesOver(3, 2, TwoColours(0))
            \cup ImagesOver(1, 1, TwoColours(255) \cup TwoColours(0)),
     st \in Strengths}

\* an optional argument: left out, or given with a value
Omitted == [given |-> FALSE, v |-> 0]
OmittedPair == [given |-> FALSE, v |-> <<0, 0>>]
Given(v) == [given |-> TRUE, v |-> v]
ArgOr(arg, default) == IF arg.given THEN arg.v ELSE default

ShadowForegrounds ==
  { UniformImage(1, 1, PixelLevels[2]),
    [w |-> 2, h |-> 1, px |-> (<<0, 0>> :> PixelLevels[3]) @@ (<<1, 0>> :> PixelLevels[4])] }

\* the optional arguments of the direct calls: offset, blur_radius, opacity
\* (opacity within [0, 1])
ShadowOptions ==
  { <<OmittedPair, Omitted, Omitted>>,
    <<Given(<<6, 14>>), Given(220), Given(35)>>,
    <<Given(<<6, 14>>), Omitted, Given(100)>>,
    <<Given(<<0, 0>>), Omitted, Given(100)>>,
    <<OmittedPair, Given(220), Given(0)>> }

ShadowInputs ==
  {[pc |-> "start", fn |-> "add_shadow", img |-> i, canvas_size |-> <<7, 17>>,
    paste_pos |-> pos, offset |-> o[1], blur_radius |-> o[2], opacity |-> o[3],
    cast_pos |-> <<0, 0>>, bottom |-> NoImage, top |-> NoImage, out |-> NoImage,
    raw |-> {}] :
     i \in ShadowForegrounds, pos \in {<<0, 0>>, <<1, 0>>}, o \in ShadowOptions}

\* refine_edges(img, strength)
RefineCall ==
  /\ bb.pc = "start"
  /\ bb.fn = "refine_edges"
  /\ bb' = [bb EXCEPT !.pc = "refined",
                      !.out = refine_edges(bb.img, bb.strength),
                      !.raw = RefineRaw(bb.img, bb.strength)]
  /\ UNCHANGED <<pc, args, frames, ret, trace, ncalls>>

\* refine_edges applied to its own result, with the same strength
RefineAgain ==
  /\ bb.pc = "refined"
  /\ bb' = [bb EXCEPT !.pc = "refined2",
                      !.out2 = refine_edges(bb.out, bb.strength),
                      !.raw = @ \cup RefineRaw(bb.out, bb.strength)]
  /\ UNCHANGED <<pc, args, frames, ret, trace, ncalls>>

\* add_shadow(img, canvas_size, paste_pos[, offset][, blur_radius][, opacity])
ShadowCall ==
  /\ bb.pc = "start"
  /\ bb.fn = "add_shadow"
  /\ LET offset == ArgOr(bb.offset, DefaultOffset)
         radius10 == ArgOr(bb.blur_radius, DefaultRadius10)
         percent == ArgOr(bb.opacity, DefaultPercent)
         o == CompositeOperands(bb.img, bb.canvas_size, bb.paste_pos, offset, radius10,
                                percent)
     IN bb' = [bb EXCEPT
                 !.pc = "shadowed",
                 !.cast_pos = <<bb.paste_pos[1] + offset[1], bb.paste_pos[2] + offset[2]>>,
                 !.bottom = o.im1,
                 !.top = o.im2,
                 !.out = add_shadow(bb.img, bb.canvas_size, bb.paste_pos, offset, radius10,
                                    percent),
                 !.raw = ShadowRaw(bb.img, bb.canvas_size, bb.paste_pos, offset, radius10,
                                   percent)]
  /\ UNCHANGED <<pc, args, frames, ret, trace, ncalls>>

InitFn ==
  /\ InitCalls
  /\ bb \in RefineInputs \cup ShadowInputs

NextFn == RefineCall \/ RefineAgain \/ ShadowCall

SpecFn == InitFn /\ [][NextFn]_vars

(***************************************************************************)
(* bg_removal: concurrent callers of remove_background_pil.  Here bb is    *)
(* the state of the module and of its callers.                             *)
(***************************************************************************)
\* _session = None (line 28); session objects are numbered from 1 in the
\* order of their construction
None == 0

\* the module after import, no caller inside: at[t] is the line caller t
\* executes next, made the local model_path / the constructed session of
\* _get_session, session the local of remove_background_pil
InitSession ==
  /\ InitCalls
  /\ bb = [pc |-> "bg_removal", session_global |-> None, model_file |-> FALSE,
           constructed |-> 0, downloads |-> 0, invocations |-> 0,
           at |-> [t \in Calls |-> "idle"],
           made |-> [t \in Calls |-> None],
           session |-> [t \in Calls |-> None]]

Goto(t, line) == [bb.at EXCEPT ![t] = line]

\* line 81: remove_background_pil calls _get_session
RemoveBackgroundPil(t) ==
  /\ bb.at[t] = "idle"
  /\ bb.invocations < MaxInvocations
  /\ bb' = [bb EXCEPT !.at = Goto(t, "l44"), !.invocations = @ + 1,
                      !.made = [@ EXCEPT ![t] = None],
                      !.session = [@ EXCEPT ![t] = None]]
  /\ UNCHANGED <<pc, args, frames, ret, trace, ncalls>>

\* line 44: if _session is None
TestSession(t) ==
  /\ bb.at[t] = "l44"
  /\ bb' = [bb EXCEPT !.at = Goto(t, IF bb.session_global = None THEN "l33" ELSE "l50")]
  /\ UNCHANGED <<pc, args, frames, ret, trace, ncalls>>

\* lines 45, 33-34: _get_model_path tests whether the model file is there
TestModelFile(t) ==
  /\ bb.at[t] = "l33"
  /\ bb' = [bb EXCEPT !.at = Goto(t, IF bb.model_file THEN "l48" ELSE "l38")]
  /\ UNCHANGED <<pc, args, frames, ret, trace, ncalls>>

\* lines 35-39: the download
Download(t) ==
  /\ bb.at[t] = "l38"
  /\ bb' = [bb EXCEPT !.at = Goto(t, "l48"), !.model_file = TRUE, !.downloads = @ + 1]
  /\ UNCHANGED <<pc, args, frames, ret, trace, ncalls>>

\* line 48, right-hand side: ort.InferenceSession(...) builds a new session
Construct(t) ==
  /\ bb.at[t] = "l48"
  /\ bb' = [bb EXCEPT !.at = Goto(t, "l48_store"), !.constructed = @ + 1,
                      !.made = [@ EXCEPT ![t] = bb.constructed + 1]]
  /\ UNCHANGED <<pc, args, frames, ret, trace, ncalls>>

\* line 48, the assignment to the global; line 49
StoreSession(t) ==
  /\ bb.at[t] = "l48_store"
  /\ bb' = [bb EXCEPT !.at = Goto(t, "l50"), !.session_global = bb.made[t]]
  /\ UNCHANGED <<pc, args, frames, ret, trace, ncalls>>

\* line 50 and line 81: return _session reads the global again
ReturnSession(t) ==
  /\ bb.at[t] = "l50"
  /\ bb' = [bb EXCEPT !.at = Goto(t, "l82"),
                      !.session = [@ EXCEPT ![t] = bb.session_global]]
  /\ UNCHANGED <<pc, args, frames, ret, trace, ncalls>>

\* lines 82-92: the inference with the session, and the return
RunInference(t) ==
  /\ bb.at[t] = "l82"
  /\ bb' = [bb EXCEPT !.at = Goto(t, "idle")]
  /\ UNCHANGED <<pc, args, frames, ret, trace, ncalls>>

NextSession ==
  \E t \in Calls :
    \/ RemoveBackgroundPil(t)
    \/ TestSession(t)
    \/ TestModelFile(t)
    \/ Download(t)
    \/ Construct(t)
    \/ StoreSession(t)
    \/ ReturnSession(t)
    \/ RunInference(t)

SpecSession == InitSession /\ [][NextSession]_vars

\* concurrent and repeated calls of process_image
NextPar ==
  \E c \in Calls :
    \/ \E a \in ParInputs : Call(c, a)
    \/ Stage(c)
    \/ Finish(c)

SpecPar == Init /\ [][NextPar]_vars

(***************************************************************************)
(* Properties.                                                             *)
(***************************************************************************)
IsPrefix(s, t) == Len(s) <= Len(t) /\ s = SubSeq(t, 1, Len(s))

\* the stages of section 4.5 in their order
StageOrder(shadow) ==
  IF shadow
  THEN <<"refine", "crop", "layout", "canvas", "shadow", "paste", "parse", "flatten",
         "drop_alpha">>
  ELSE <<"refine", "crop", "layout", "canvas", "paste", "parse", "flatten", "drop_alpha">>

\* the stages that work on buffers
BufferStages == {"refine", "crop", "layout", "canvas", "shadow", "paste", "flatten"}

\* each stage applied to the output of the stage before it
ComposedOutput(a) ==
  LET f1 == refine_edges(ConvertRGBA(a.foreground), "light")
      f2 == crop_to_content(f1)
      t == Thumbnail(f2, InnerSize(a.output_size[1], a.padding8),
                     InnerSize(a.output_size[2], a.padding8))
      pos == <<(a.output_size[1] - t.img.w) \div 2, (a.output_size[2] - t.img.h) \div 2>>
      c0 == NewImage(a.output_size[1], a.output_size[2], <<0, 0, 0, 0>>)
      c1 == IF a.shadow
            THEN AlphaComposite(c0, add_shadow(t.img, a.output_size, pos, PipelineOffset,
                                               PipelineRadius10, PipelinePercent))
            ELSE c0
      c2 == Paste(c1, t.img, pos)
      bg == NewImage(a.output_size[1], a.output_size[2],
                     Ink(ParseColor(a.background_color).rgb))
  IN ConvertRGB(AlphaComposite(bg, c2))

\* C1: a call executes refine, crop, layout, canvas, shadow (only when shadow
\* is true), paste, parse, flatten, drop_alpha in this order, each at most
\* once, the stage it executes next being the next of the order; what it
\* returns is each stage applied to the output of the stage before it.
C1_StageOrder ==
  \A c \in Calls :
    pc[c] # "idle" =>
      /\ IsPrefix(trace[c], StageOrder(args[c].shadow))
      /\ pc[c] \notin {"done", "error"} => pc[c] = StageOrder(args[c].shadow)[Len(trace[c]) + 1]
      /\ pc[c] = "done" =>
           /\ trace[c] = StageOrder(args[c].shadow)
           /\ ret[c].img = ComposedOutput(args[c])

C1_Witness ==
  /\ pc[1] = "done"
  /\ args[1].shadow
  /\ Len(trace[1]) = 9
  /\ \E xy \in DOMAIN Local(1).shadow_layer.px : Local(1).shadow_layer.px[xy][4] > 0

\* a background_color of exactly six hexadecimal digits
WellFormed(col) == Len(col) = 6 /\ \A i \in 1 .. 6 : col[i] \in DOMAIN HexDigit

\* C2: when the error for a malformed background_color is raised, no buffer
\* stage (refine, crop, layout, canvas, shadow, paste, flatten) has been
\* executed.
C2_FailFast ==
  \A c \in Calls :
    (pc[c] = "error" /\ ret[c].stage = "parse") =>
      \A i \in 1 .. Len(trace[c]) : trace[c][i] \notin BufferStages

\* what holds of C2 on the code: the error for a background_color is raised by
\* the colour parse, after refine, crop, layout, canvas, shadow (when shadow is
\* true) and paste have been executed, and the call returns no image.
C2_FailsAtParse ==
  \A c \in Calls :
    (pc[c] = "error" /\ ~ParseColor(args[c].background_color).ok /\ ret[c].stage # "layout") =>
      /\ ret[c].stage = "parse"
      /\ ret[c].exc = "ValueError"
      /\ trace[c] = SubSeq(StageOrder(args[c].shadow), 1, Len(trace[c]))
      /\ trace[c][Len(trace[c])] = "parse"
      /\ trace[c][Len(trace[c]) - 1] = "paste"
      /\ ~WellFormed(args[c].background_color)
      /\ ret[c].img = NoImage
      /\ Local(c).result = NoImage

C2_Witness ==
  /\ pc[1] = "error"
  /\ ret[1].stage = "parse"
  /\ args[1].shadow
  /\ "shadow" \in {trace[1][i] : i \in 1 .. Len(trace[1])}
  /\ \E xy \in DOMAIN Local(1).canvas.px : Local(1).canvas.px[xy][4] > 0

\* C3: a call whose background_color is not exactly six hexadecimal
\* digits never ends in an output image.
C3_RejectsMalformed ==
  \A c \in Calls :
    (pc[c] # "idle" /\ ~WellFormed(args[c].background_color)) => ret[c].kind # "image"

Opaque(img) == \A xy \in DOMAIN img.px : img.px[xy][4] = 255

\* C4: the image a call returns has the size output_size and three channels,
\* and the flattened canvas it comes from has alpha 255 at every pixel.
C4_OutputSizeOpaque ==
  \A c \in Calls :
    pc[c] = "done" =>
      /\ ret[c].kind = "image"
      /\ ret[c].img.w = args[c].output_size[1]
      /\ ret[c].img.h = args[c].output_size[2]
      /\ DOMAIN ret[c].img.px = Coords(args[c].output_size[1], args[c].output_size[2])
      /\ \A xy \in DOMAIN ret[c].img.px : Len(ret[c].img.px[xy]) = 3
      /\ Opaque(Local(c).result)
      /\ DOMAIN Local(c).result.px = DOMAIN ret[c].img.px

C4_Witness ==
  /\ pc[1] = "done"
  /\ args[1].shadow
  /\ args[1].padding8 = 1
  /\ \E xy \in DOMAIN Local(1).canvas.px : Local(1).canvas.px[xy][4] \in 1 .. 254
  /\ \E xy \in DOMAIN Local(1).canvas.px : Local(1).canvas.px[xy][4] = 255

\* the pasted rectangle [paste_x, paste_x + scaled_w) x [paste_y, paste_y + scaled_h)
InFootprint(f, xy) ==
  /\ xy[1] >= f.paste_pos[1] /\ xy[1] < f.paste_pos[1] + f.fg.w
  /\ xy[2] >= f.paste_pos[2] /\ xy[2] < f.paste_pos[2] + f.fg.h

\* the background fill as a pixel of the returned image
Background(f) == <<CLIP8(f.rgb[1]), CLIP8(f.rgb[2]), CLIP8(f.rgb[3])>>

\* C5: with shadow = false every pixel of the returned image outside the
\* pasted rectangle is the background colour.
C5_NoShadowOutsideFootprint ==
  \A c \in Calls :
    (pc[c] = "done" /\ ~args[c].shadow) =>
      \A xy \in DOMAIN ret[c].img.px :
        ~InFootprint(Local(c), xy) => ret[c].img.px[xy] = Background(Local(c))

C5_Witness ==
  /\ pc[1] = "done"
  /\ ~args[1].shadow
  /\ \E xy \in DOMAIN ret[1].img.px : ~InFootprint(Local(1), xy)
  /\ \E xy \in DOMAIN ret[1].img.px :
       InFootprint(Local(1), xy) /\ ret[1].img.px[xy] # Background(Local(1))
  /\ Local(1).paste_pos[1] > 0

\* int(RR, 16), int(GG, 16), int(BB, 16) of six hexadecimal digits
HexRGB(col) ==
  <<16 * HexDigit[col[1]] + HexDigit[col[2]], 16 * HexDigit[col[3]] + HexDigit[col[4]],
    16 * HexDigit[col[5]] + HexDigit[col[6]]>>

\* a pixel that neither the foreground nor the shadow covers
Uncovered(f, shadow, xy) ==
  /\ InFootprint(f, xy) =>
       f.fg.px[<<xy[1] - f.paste_pos[1], xy[2] - f.paste_pos[2]>>][4] = 0
  /\ shadow => f.shadow_layer.px[xy][4] = 0

\* C6: for a background_color of six hexadecimal digits RRGGBB every pixel of
\* the returned image that neither foreground nor shadow covers is
\* (int(RR,16), int(GG,16), int(BB,16)).
C6_BackgroundColour ==
  \A c \in Calls :
    (pc[c] = "done" /\ WellFormed(args[c].background_color)) =>
      \A xy \in DOMAIN ret[c].img.px :
        Uncovered(Local(c), args[c].shadow, xy) =>
          ret[c].img.px[xy] = HexRGB(args[c].background_color)

C6_Witness ==
  /\ pc[1] = "done"
  /\ args[1].background_color = Magenta
  /\ \E xy \in DOMAIN ret[1].img.px :
       Uncovered(Local(1), args[1].shadow, xy) /\ ret[1].img.px[xy] = <<255, 0, 255>>
  /\ \E xy \in DOMAIN ret[1].img.px :
       ~Uncovered(Local(1), args[1].shadow, xy) /\ ret[1].img.px[xy] # <<255, 0, 255>>

AllTransparent(img) == \A xy \in DOMAIN img.px : Len(img.px[xy]) = 4 /\ img.px[xy][4] = 0

\* C7: a call whose foreground has alpha 0 at every pixel raises no
\* error and returns an image of output_size whose every pixel is the
\* background colour.
C7_TransparentForeground ==
  \A c \in Calls :
    (pc[c] # "idle" /\ AllTransparent(args[c].foreground)) =>
      /\ pc[c] # "error"
      /\ pc[c] = "done" =>
           /\ ret[c].img.w = args[c].output_size[1]
           /\ ret[c].img.h = args[c].output_size[2]
           /\ \A xy \in DOMAIN ret[c].img.px : ret[c].img.px[xy] = Background(Local(c))

\* what holds of C7 on the code: unless the layout raises, such a call ends
\* with every pixel the background colour, with and without shadow
C7_UnlessLayoutRaises ==
  \A c \in Calls :
    (pc[c] # "idle" /\ AllTransparent(args[c].foreground)) =>
      /\ pc[c] = "error" => ret[c].stage \in {"layout", "parse"}
      /\ pc[c] = "done" =>
           /\ ret[c].img.w = args[c].output_size[1]
           /\ ret[c].img.h = args[c].output_size[2]
           /\ \A xy \in DOMAIN ret[c].img.px : ret[c].img.px[xy] = Background(Local(c))

\* C8: two calls with the same arguments return the same image, whatever
\* calls ran before them or run interleaved with them.
C8_Deterministic ==
  \A c1, c2 \in Calls :
    (ret[c1].kind = "image" /\ ret[c2].kind = "image" /\ args[c1] = args[c2]) =>
      ret[c1].img = ret[c2].img

C8_Witness ==
  /\ ret[1].kind = "image"
  /\ ret[2].kind = "image"
  /\ args[1] = args[2]
  /\ ncalls >= 3
  /\ pc[1] = "done"
  /\ pc[2] = "done"

HasContent(img, threshold) == \E xy \in DOMAIN img.px : img.px[xy][4] > threshold
AboveAt(img, threshold, x, y) == img.px[<<x, y>>][4] > threshold

\* no row and no column outside the box holds a pixel above the threshold
OutsideClear(img, threshold, box) ==
  \A xy \in DOMAIN img.px :
    AboveAt(img, threshold, xy[1], xy[2]) =>
      /\ box[1] <= xy[1] /\ xy[1] < box[3]
      /\ box[2] <= xy[2] /\ xy[2] < box[4]

\* each of the four boundary lines of the box holds a pixel above the threshold
BoundaryHit(img, threshold, box) ==
  /\ \E x \in 0 .. img.w - 1 : AboveAt(img, threshold, x, box[2])
  /\ \E x \in 0 .. img.w - 1 : AboveAt(img, threshold, x, box[4] - 1)
  /\ \E y \in 0 .. img.h - 1 : AboveAt(img, threshold, box[1], y)
  /\ \E y \in 0 .. img.h - 1 : AboveAt(img, threshold, box[3] - 1, y)

\* C9 as claimed: for all images, those without a pixel above the threshold
\* included, the box is tight.
C9_TightForAll ==
  bb.pc \in {"bbox", "cropped"} =>
    /\ OutsideClear(bb.img, bb.threshold, bb.box)
    /\ BoundaryHit(bb.img, bb.threshold, bb.box)

\* C9 amended: no row and no column outside the box holds a pixel above the
\* threshold; when the image has a pixel above the threshold, each boundary
\* line of the box holds one, and so does each boundary line of the crop.
C9_TightWithContent ==
  /\ bb.pc \in {"bbox", "cropped"} =>
       /\ OutsideClear(bb.img, bb.threshold, bb.box)
       /\ HasContent(bb.img, bb.threshold) => BoundaryHit(bb.img, bb.threshold, bb.box)
  /\ (bb.pc = "cropped" /\ HasContent(bb.img, bb.threshold)) =>
       /\ bb.cropped.w = bb.box[3] - bb.box[1]
       /\ bb.cropped.h = bb.box[4] - bb.box[2]
       /\ BoundaryHit(bb.cropped, bb.threshold, <<0, 0, bb.cropped.w, bb.cropped.h>>)

C9_Witness ==
  /\ bb.pc = "bbox"
  /\ HasContent(bb.img, bb.threshold)
  /\ bb.box[1] > 0
  /\ bb.box[4] < bb.img.h
  /\ \E xy \in DOMAIN bb.img.px : bb.img.px[xy][4] = bb.threshold /\ xy[2] >= bb.box[4]

\* C10: the box is never empty and lies in the image; without a pixel above
\* the threshold it is the whole image.
C10_BoxInImage ==
  bb.pc \in {"bbox", "cropped"} =>
    /\ 0 <= bb.box[1] /\ bb.box[1] < bb.box[3] /\ bb.box[3] <= bb.img.w
    /\ 0 <= bb.box[2] /\ bb.box[2] < bb.box[4] /\ bb.box[4] <= bb.img.h
    /\ ~HasContent(bb.img, bb.threshold) => bb.box = <<0, 0, bb.img.w, bb.img.h>>

C10_Witness ==
  /\ bb.pc = "bbox"
  /\ bb.threshold = 255
  /\ ~HasContent(bb.img, bb.threshold)
  /\ \E xy \in DOMAIN bb.img.px : bb.img.px[xy][4] = 255
  /\ bb.box = <<0, 0, bb.img.w, bb.img.h>>

C10_WitnessSingle ==
  /\ bb.pc = "bbox"
  /\ HasContent(bb.img, bb.threshold)
  /\ bb.box[3] = bb.box[1] + 1
  /\ bb.box[4] = bb.box[2] + 1

\* the call has executed the layout (lines 171-179) without an error
LaidOut(c) ==
  /\ pc[c] # "idle"
  /\ Len(trace[c]) >= 3
  /\ trace[c][3] = "layout"
  /\ ~(pc[c] = "error" /\ ret[c].stage = "layout")

\* n <= target * (1 - 2p) for p = padding8 / 8, in exact arithmetic
FitsInner(n, target, padding8) == 8 * n <= target * (8 - 2 * padding8)

PadMargin(side, padding8) == (padding8 * side) \div 8

\* C12: paste_pos is ((W - scaled_w) // 2, (H - scaled_h) // 2); the pasted
\* rectangle lies inside the canvas, opposite margins differ by at most 1, and
\* every margin is at least floor(p*W) (horizontally) or floor(p*H) (vertically).
C12_Centred ==
  \A c \in Calls :
    LaidOut(c) =>
      LET f == Local(c)
          W == args[c].output_size[1]
          H == args[c].output_size[2]
          p8 == args[c].padding8
          left == f.paste_pos[1]
          top == f.paste_pos[2]
          right == W - f.fg.w - left
          bottom == H - f.fg.h - top
      IN /\ left = (W - f.fg.w) \div 2
         /\ top = (H - f.fg.h) \div 2
         /\ left >= 0 /\ right >= 0 /\ top >= 0 /\ bottom >= 0
         /\ right - left \in {0, 1}
         /\ bottom - top \in {0, 1}
         /\ left >= PadMargin(W, p8) /\ right >= PadMargin(W, p8)
         /\ top >= PadMargin(H, p8) /\ bottom >= PadMargin(H, p8)

C12_Witness ==
  /\ pc[1] = "done"
  /\ LaidOut(1)
  /\ args[1].padding8 = 3
  /\ Local(1).paste_pos[1] >= 1
  /\ args[1].output_size[1] - Local(1).fg.w - Local(1).paste_pos[1] = Local(1).paste_pos[1] + 1
  /\ Local(1).paste_pos[2] = PadMargin(args[1].output_size[2], 3)

\* C14: a call of process_image leaves the image object of its caller as it
\* was, whether the call succeeds or fails, and refine_edges leaves the object
\* process_image passes to it as it was: refinement, crop and the in-place
\* scaling act on objects created inside the call; add_shadow only reads the
\* object it is given.
C14_CallerImageUnchanged ==
  \A c \in Calls :
    pc[c] # "idle" =>
      LET f == Local(c)
      IN /\ f.heap[1] = args[c].foreground
         /\ f.fg_obj > 1
         /\ f.heap[f.fg_obj] = f.fg
         /\ Len(f.heap) >= 3 => f.heap[2] = ConvertRGBA(args[c].foreground)
         /\ "shadow" \in {trace[c][i] : i \in 1 .. Len(trace[c])} =>
              /\ Len(f.heap) = 4
              /\ f.fg_obj = 4

C14_Witness ==
  /\ pc[1] = "done"
  /\ args[1].shadow
  /\ Len(Local(1).heap) = 4
  /\ Local(1).heap[3] # Local(1).heap[2]
  /\ Local(1).heap[4].w < Local(1).heap[3].w
  /\ Local(1).heap[4].w < Local(1).scaled_from[1]

\* a raster the core accepts by its contract: four channels, no zero dimension
ValidRaster(img) ==
  /\ img.w >= 1
  /\ img.h >= 1
  /\ \A xy \in DOMAIN img.px : Len(img.px[xy]) = 4

\* C16: a call whose foreground is not a four-channel raster with positive
\* width and height ends in an error, never in an image.
C16_RejectsInvalidRaster ==
  \A c \in Calls :
    (pc[c] # "idle" /\ ~ValidRaster(args[c].foreground)) => ret[c].kind # "image"

Near(a, b) == a - b \in -1 .. 1

\* the canvas of a call just before line 193
CanvasBeforePaste(c, xy) ==
  IF args[c].shadow THEN AlphaOver(<<0, 0, 0, 0>>, Local(c).shadow_layer.px[xy])
  ELSE <<0, 0, 0, 0>>

\* C17: after the foreground is put on the canvas, every pixel of the
\* footprint is the alpha-over of the foreground pixel on the canvas pixel
\* (to one unit of rounding; the colour only where the result is not fully
\* transparent), and over a fully transparent canvas pixel it is exactly the
\* foreground pixel.
C17_PasteIsAlphaOver ==
  \A c \in Calls :
    (pc[c] # "idle" /\ "paste" \in {trace[c][i] : i \in 1 .. Len(trace[c])}) =>
      \A xy \in DOMAIN Local(c).canvas.px :
        InFootprint(Local(c), xy) =>
          LET top == Local(c).fg.px[<<xy[1] - Local(c).paste_pos[1],
                                      xy[2] - Local(c).paste_pos[2]>>]
              below == CanvasBeforePaste(c, xy)
              want == AlphaOver(below, top)
              got == Local(c).canvas.px[xy]
          IN /\ Near(got[4], want[4])
             /\ want[4] > 0 =>
                  Near(got[1], want[1]) /\ Near(got[2], want[2]) /\ Near(got[3], want[3])
             /\ (below[4] = 0 /\ top[4] > 0) => got = top

\* C13: refining a refined image again with the same strength does not raise
\* the alpha of any pixel whose alpha in the refined image is below 245.
C13_RefineAgainNoIncrease ==
  bb.pc = "refined2" =>
    \A xy \in DOMAIN bb.out.px :
      bb.out.px[xy][4] < 245 => bb.out2.px[xy][4] <= bb.out.px[xy][4]

C13_Witness ==
  /\ bb.pc = "refined2"
  /\ \E xy \in DOMAIN bb.out.px :
       /\ bb.out.px[xy][4] \in 8 .. 244
       /\ bb.out2.px[xy][4] < bb.out.px[xy][4]
  /\ \E xy \in DOMAIN bb.out.px : bb.out.px[xy][4] = 255 /\ bb.out2.px[xy][4] = 255

\* C15: every value refine_edges and add_shadow (opacity within [0, 1])
\* compute for an 8-bit channel (decontaminated colour, thresholded, eroded,
\* feathered and re-thresholded alpha, blurred and scaled shadow alpha) lies
\* in 0..255 before it is converted to 8 bits.
C15_ValuesInRange ==
  bb.pc \in {"refined", "refined2", "shadowed"} => \A v \in bb.raw : v >= 0 /\ v <= 255

C15_Witness ==
  /\ bb.pc = "refined"
  /\ 255 \in bb.raw
  /\ 0 \in bb.raw
  /\ DecontaminationRaw(bb.img) # {}
  /\ \E xy \in DOMAIN bb.img.px : bb.out.px[xy][3] # bb.img.px[xy][3]

\* C18: the threshold after feathering is that of step 2: a feathered alpha
\* below 8 becomes 0, one above 245 becomes 255, and one of 8..245 is kept.
C18_SameThreshold ==
  bb.pc = "refined" =>
    \A xy \in DOMAIN bb.out.px :
      bb.out.px[xy][4] = AlphaThreshold(FeatheredAlpha(bb.img, bb.strength)[xy])

\* C19: a call of add_shadow that leaves out offset, blur radius and opacity
\* places the cast silhouette at paste_pos + (6,14) and returns what the
\* call with the values of the pipeline, (6,14), 22 and 0.35, returns.
C19_DefaultsAsPipeline ==
  (bb.pc = "shadowed" /\ ~bb.offset.given /\ ~bb.blur_radius.given /\ ~bb.opacity.given) =>
    /\ bb.cast_pos = <<bb.paste_pos[1] + PipelineOffset[1], bb.paste_pos[2] + PipelineOffset[2]>>
    /\ bb.out = add_shadow(bb.img, bb.canvas_size, bb.paste_pos, PipelineOffset,
                           PipelineRadius10, PipelinePercent)

\* the claim's value channel*bf + (solid_mean*0.3 + channel*0.7)*(1-bf), with
\* bf = a/255 and solid_mean = ssum/n, has the integer part v
IsDecontaminated(v, chan, a, ssum, n) ==
  LET num == chan * a * 10 * n + (3 * ssum + 7 * chan * n) * (255 - a)
  IN 2550 * n * v <= num /\ num < 2550 * n * (v + 1)

\* the sum of channel c over the pixels of img with alpha > 240
RECURSIVE SolidSumFrom(_, _, _)
SolidSumFrom(img, c, i) ==
  IF i >= img.w * img.h THEN 0
  ELSE LET p == img.px[<<i % img.w, i \div img.w>>]
       IN (IF p[4] > 240 THEN p[c] ELSE 0) + SolidSumFrom(img, c, i + 1)

Colour(p) == <<p[1], p[2], p[3]>>

\* C21: refine_edges returns an image of the size of its input; every pixel
\* whose input alpha is <= 5 or >= 240 keeps its colour channels; and when no
\* pixel has alpha > 240 the call returns (decontamination is skipped) and
\* every pixel keeps its colour channels.
C21_SizeAndColourFrame ==
  bb.pc = "refined" =>
    /\ bb.out.w = bb.img.w /\ bb.out.h = bb.img.h
    /\ DOMAIN bb.out.px = DOMAIN bb.img.px
    /\ \A xy \in DOMAIN bb.img.px :
         (bb.img.px[xy][4] <= 5 \/ bb.img.px[xy][4] >= 240) =>
           Colour(bb.out.px[xy]) = Colour(bb.img.px[xy])
    /\ (\A xy \in DOMAIN bb.img.px : ~(bb.img.px[xy][4] > 240)) =>
         \A xy \in DOMAIN bb.img.px : Colour(bb.out.px[xy]) = Colour(bb.img.px[xy])

\* an image with solid pixels (243 and 255), a transparent one and an edge
\* pixel: the edge pixel is decontaminated, the others keep their colour
C21_Witness ==
  /\ bb.pc = "refined"
  /\ \E xy \in DOMAIN bb.img.px :
       bb.img.px[xy][4] = 100 /\ Colour(bb.out.px[xy]) # Colour(bb.img.px[xy])
  /\ \E xy \in DOMAIN bb.img.px :
       bb.img.px[xy][4] = 243 /\ Colour(bb.out.px[xy]) = Colour(bb.img.px[xy])
  /\ \E xy \in DOMAIN bb.img.px :
       bb.img.px[xy][4] = 0 /\ Colour(bb.out.px[xy]) = Colour(bb.img.px[xy])

\* the pixels refine_edges decontaminates in img: the edge pixels, when the
\* image has a solid pixel
Decontaminated(img) ==
  IF \E xy \in DOMAIN img.px : img.px[xy][4] > 240
  THEN {xy \in DOMAIN img.px : img.px[xy][4] > 5 /\ img.px[xy][4] < 240}
  ELSE {}

\* C22 as stated: for every decontaminated pixel the coefficient of the
\* pixel's own channel plus that of the solid mean exceeds 1.
C22_NonNormalized ==
  bb.pc = "refined" =>
    \A xy \in Decontaminated(bb.img) :
      ChannelWeight(bb.img.px[xy][4]) + SolidWeight(bb.img.px[xy][4]) > WeightUnit

\* C22, what holds: for every decontaminated pixel the coefficient of the
\* pixel's own channel plus that of the solid mean is exactly 1, and each
\* colour channel of the result is (the integer part of) a weighted average:
\* it lies between the channel's input value and the solid mean.
C22_Normalized ==
  bb.pc = "refined" =>
    \A xy \in Decontaminated(bb.img) :
      /\ ChannelWeight(bb.img.px[xy][4]) + SolidWeight(bb.img.px[xy][4]) = WeightUnit
      /\ \A c \in 1 .. 3 :
           LET n == Cardinality({zz \in DOMAIN bb.img.px : bb.img.px[zz][4] > 240})
               ssum == SolidSumFrom(bb.img, c, 0)
               chan == bb.img.px[xy][c]
               v == bb.out.px[xy][c]
           IN /\ n * v <= Max2(n * chan, ssum)
              /\ n * (v + 1) > Min2(n * chan, ssum)

\* a decontaminated pixel with one channel above the solid mean and one
\* below it: both move towards the mean and neither passes it
C22_Witness ==
  /\ bb.pc = "refined"
  /\ \E xy \in Decontaminated(bb.img) :
       LET n == Cardinality({zz \in DOMAIN bb.img.px : bb.img.px[zz][4] > 240})
       IN /\ bb.out.px[xy][1] > bb.img.px[xy][1]
          /\ n * bb.out.px[xy][1] < SolidSumFrom(bb.img, 1, 0)
          /\ bb.out.px[xy][3] < bb.img.px[xy][3]
          /\ n * bb.out.px[xy][3] > SolidSumFrom(bb.img, 3, 0)

\* every pixel of img has alpha a
UniformAlpha(img, a) == \A xy \in DOMAIN img.px : img.px[xy][4] = a

\* C23: for every strength, refine_edges of an image whose alpha is 255 at
\* every pixel, or 0 at every pixel, returns the image itself: the same alpha
\* at every pixel, border pixels included, and the same colours.
C23_UniformMaskUnchanged ==
  (bb.pc = "refined" /\ (UniformAlpha(bb.img, 255) \/ UniformAlpha(bb.img, 0))) =>
    bb.out = bb.img

\* a fully opaque image of two colours, refined with three erosion passes
C23_Witness ==
  /\ bb.pc = "refined"
  /\ bb.strength = "heavy"
  /\ bb.img.w = 3 /\ bb.img.h = 2
  /\ UniformAlpha(bb.img, 255)
  /\ \E xy, zz \in DOMAIN bb.img.px : Colour(bb.img.px[xy]) # Colour(bb.img.px[zz])
  /\ UniformAlpha(bb.out, 255)

\* the silhouette of img (alpha > 20 gives 255, otherwise 0, colour black)
\* on a transparent canvas, its corner at pos
SilhouetteAt(img, canvas_size, pos) ==
  [w |-> canvas_size[1], h |-> canvas_size[2],
   px |-> Eager([xy \in Coords(canvas_size[1], canvas_size[2]) |->
             LET sx == xy[1] - pos[1]
                 sy == xy[2] - pos[2]
             IN IF /\ sx >= 0 /\ sx < img.w /\ sy >= 0 /\ sy < img.h
                   /\ img.px[<<sx, sy>>][4] > 20
                THEN <<0, 0, 0, 255>>
                ELSE <<0, 0, 0, 0>>])]

\* blur first, then the opacity: the image whose alpha is the integer part of
\* opacity times the blurred alpha of img
BlurThenScale(img, radius10, percent) ==
  LET b == GaussianBlurRGBA(img, radius10)
  IN [b EXCEPT !.px = Eager([xy \in DOMAIN b.px |->
        <<b.px[xy][1], b.px[xy][2], b.px[xy][3], (b.px[xy][4] * percent) \div 100>>])]

\* the blur radius, opacity and contact position of the direct call bb
UsedRadius10 == ArgOr(bb.blur_radius, DefaultRadius10)
UsedPercent == ArgOr(bb.opacity, DefaultPercent)
ContactPos == <<bb.paste_pos[1] + 2, bb.paste_pos[2] + 4>>

\* C24: in add_shadow each sub-shadow is the pasted silhouette, blurred, with
\* the opacity applied to the blurred alpha (never before the blur); the
\* contact shadow is the bottom layer of the composite and the cast shadow is
\* composited alpha-over on top of it: out_a = top_a + bottom_a*(1 - top_a),
\* to the rounding of 8 bits.
C24_BlurThenScaleContactBelow ==
  bb.pc = "shadowed" =>
    /\ bb.top = BlurThenScale(SilhouetteAt(bb.img, bb.canvas_size, bb.cast_pos),
                              UsedRadius10, UsedPercent)
    /\ bb.bottom = BlurThenScale(SilhouetteAt(bb.img, bb.canvas_size, ContactPos), 50, 40)
    /\ \A xy \in DOMAIN bb.out.px :
         LET t == bb.top.px[xy][4]
             b == bb.bottom.px[xy][4]
             d == 255 * bb.out.px[xy][4] - (255 * t + b * (255 - t))
         IN d <= 128 /\ -d <= 128

\* a cast shadow at full opacity over a contact shadow: somewhere both
\* layers are partly transparent and the result is denser than either
C24_Witness ==
  /\ bb.pc = "shadowed"
  /\ bb.opacity = Given(100)
  /\ bb.top # bb.bottom
  /\ \E xy \in DOMAIN bb.out.px :
       /\ bb.top.px[xy][4] \in 1 .. 254
       /\ bb.bottom.px[xy][4] \in 1 .. 254
       /\ bb.out.px[xy][4] > bb.top.px[xy][4]
       /\ bb.out.px[xy][4] > bb.bottom.px[xy][4]

\* the offset of the direct call bb, and a call of add_shadow on the same
\* foreground, canvas and paste position whose offset, blur radius and
\* opacity are all different from those of bb
UsedOffset == ArgOr(bb.offset, DefaultOffset)
OtherOffset == IF UsedOffset = <<0, 0>> THEN <<6, 14>> ELSE <<0, 0>>
OtherPercent == IF UsedPercent = 100 THEN 35 ELSE 100
OtherCall ==
  CompositeOperands(bb.img, bb.canvas_size, bb.paste_pos, OtherOffset, 220, OtherPercent)

\* C25: add_shadow derives one silhouette from the foreground alpha (alpha >
\* 20 gives 255, otherwise 0) and uses it for both sub-shadows: the cast copy
\* at paste_pos + offset with the blur radius and opacity of the call, the
\* contact copy at paste_pos + (2,4) with radius 5 and opacity 0.4; a call
\* with another offset and opacity has the same contact shadow.
C25_OneSilhouetteFixedContact ==
  bb.pc = "shadowed" =>
    /\ bb.cast_pos = <<bb.paste_pos[1] + UsedOffset[1], bb.paste_pos[2] + UsedOffset[2]>>
    /\ bb.top = BlurThenScale(SilhouetteAt(bb.img, bb.canvas_size,
                                           <<bb.paste_pos[1] + UsedOffset[1],
                                             bb.paste_pos[2] + UsedOffset[2]>>),
                              UsedRadius10, UsedPercent)
    /\ bb.bottom = BlurThenScale(SilhouetteAt(bb.img, bb.canvas_size, ContactPos), 50, 40)
    /\ OtherCall.im1 = bb.bottom

\* a foreground with one pixel above the threshold of 20 and one below it, a
\* call that gives its own offset and opacity: the contact shadow is there,
\* the cast shadow of the other call differs, the contact shadow does not
C25_Witness ==
  /\ bb.pc = "shadowed"
  /\ bb.offset = Given(<<0, 0>>)
  /\ bb.opacity = Given(100)
  /\ \E xy, zz \in DOMAIN bb.img.px :
       bb.img.px[xy][4] \in 21 .. 254 /\ bb.img.px[zz][4] \in 1 .. 20
  /\ \E xy \in DOMAIN bb.bottom.px : bb.bottom.px[xy][4] > 0
  /\ OtherCall.im2 # bb.top
  /\ OtherCall.im1 = bb.bottom

\* the pixel of the scaled foreground that is pasted on the canvas pixel xy
FgAt(f, xy) == f.fg.px[<<xy[1] - f.paste_pos[1], xy[2] - f.paste_pos[2]>>]

\* C26: with shadow = true, every pixel of the returned image that lies under
\* a pixel of the scaled foreground with alpha 255 has the colour of that
\* foreground pixel, and is the pixel the call with shadow = false returns.
C26_ShadowBeneathForeground ==
  \A c \in Calls :
    (pc[c] = "done" /\ args[c].shadow) =>
      \A xy \in DOMAIN ret[c].img.px :
        (InFootprint(Local(c), xy) /\ FgAt(Local(c), xy)[4] = 255) =>
          /\ ret[c].img.px[xy] = Colour(FgAt(Local(c), xy))
          /\ ret[c].img.px[xy] = ComposedOutput([args[c] EXCEPT !.shadow = FALSE]).px[xy]

\* an opaque foreground pixel lies on a canvas pixel that the shadow layer
\* covers, and its colour is not that of the background
C26_Witness ==
  /\ pc[1] = "done"
  /\ args[1].shadow
  /\ \E xy \in DOMAIN ret[1].img.px :
       /\ InFootprint(Local(1), xy)
       /\ FgAt(Local(1), xy)[4] = 255
       /\ Local(1).shadow_layer.px[xy][4] > 0
       /\ ret[1].img.px[xy] # Background(Local(1))

\* arguments within the documented domains: an RGBA foreground of at least
\* one pixel, six hexadecimal digits, padding in [0, 0.5), an output size of
\* at least 1 x 1
ValidArgs(a) ==
  /\ ValidRaster(a.foreground)
  /\ WellFormed(a.background_color)
  /\ a.padding8 \in 0 .. 3
  /\ a.output_size[1] >= 1 /\ a.output_size[2] >= 1

\* C27: a call with arguments within the documented domains raises no error
\* at any stage, also when the padded inner box is 0 in a dimension, and the
\* call that has finished has returned an image of output_size.
C27_NeverRaises ==
  \A c \in Calls :
    (pc[c] # "idle" /\ ValidArgs(args[c])) =>
      /\ pc[c] # "error"
      /\ ret[c].kind # "error"
      /\ pc[c] = "done" =>
           /\ ret[c].kind = "image"
           /\ ret[c].img.w = args[c].output_size[1]
           /\ ret[c].img.h = args[c].output_size[2]

\* C28: over every interleaving of concurrent callers of
\* remove_background_pil the inference session is constructed at most once,
\* every caller receives that one session, and once a session is stored no
\* caller constructs another.
C28_SessionConstructedOnce ==
  bb.pc = "bg_removal" =>
    /\ bb.constructed <= 1
    /\ \A t \in Calls : bb.session[t] \in {None, 1}
    /\ \A t, u \in Calls :
         (bb.session[t] # None /\ bb.session[u] # None) => bb.session[t] = bb.session[u]

=============================================================================
